---- MODULE Spec2Model ----
(***************************************************************************)
(* SportsDataFetcher (src/src/optimized/sports_data_fetcher.py): the       *)
(* cache-first, retry-with-backoff fetch of one document per calendar day, *)
(* run over a date range by a bounded thread pool or sequentially.         *)
(*                                                                         *)
(* Granularity.  A fetch task is cut at its accesses to state shared with  *)
(* other pool threads: self.stats.  `self.stats[k] += 1` is a read and a   *)
(* later write with no lock around them, so each increment is two steps    *)
(* (the read is folded into the end of the step before it, the write is a  *)
(* step of its own).  The cache file of a date is touched only by the task *)
(* of that date during a call, and sleeps and the HTTP request touch no    *)
(* shared state, so they are folded into the step they belong to and       *)
(* recorded in the task's event log.                                       *)
(***************************************************************************)
EXTENDS Integers, Sequences, FiniteSets, TLC

\* ---------------------------------------------------------------- bounds
MaxDates == 2       \* number of calendar days an input date is drawn from
MaxCount == 3       \* largest counter value handed to get_statistics
MaxSections == 3    \* most dates in a mapping handed to consolidate_xml
MaxChildren == 2    \* most child elements under the root of one document

\* ------------------------------------------------------- program constants
retry_attempts == 3
max_workers == 2
ScenarioDays == 5
Reruns == 2

\* ------------------------------------------------------------ calendar
\* A datetime at midnight is <<year, month, day>>; a date string in the
\* "%d %b %Y" format is <<day, month, year>>.
Strptime(s) == <<s[3], s[2], s[1]>>
Strftime(dt) == <<dt[3], dt[2], dt[1]>>

DaysInMonth(y, m) ==
    IF m = 2 THEN (IF (y % 4 = 0 /\ y % 100 # 0) \/ y % 400 = 0 THEN 29 ELSE 28)
    ELSE IF m \in {4, 6, 9, 11} THEN 30 ELSE 31

\* current += timedelta(days=1)
NextDay(dt) ==
    IF dt[3] < DaysInMonth(dt[1], dt[2]) THEN <<dt[1], dt[2], dt[3] + 1>>
    ELSE IF dt[2] < 12 THEN <<dt[1], dt[2] + 1, 1>>
    ELSE <<dt[1] + 1, 1, 1>>

\* Variant: the loop stops before the end date.
DateLEStrict(a, b) ==
    \/ a[1] < b[1]
    \/ a[1] = b[1] /\ a[2] < b[2]
    \/ a[1] = b[1] /\ a[2] = b[2] /\ a[3] < b[3]

\* datetime comparison current <= end_dt
DateLE(a, b) ==
    \/ a[1] < b[1]
    \/ a[1] = b[1] /\ a[2] < b[2]
    \/ a[1] = b[1] /\ a[2] = b[2] /\ a[3] <= b[3]

RECURSIVE PlusDays(_, _)
PlusDays(dt, n) == IF n = 0 THEN dt ELSE PlusDays(NextDay(dt), n - 1)

\* The days input dates are drawn from: 30 Sep 2024 onwards, so that the
\* second day crosses the month end.
FirstDay == <<2024, 9, 30>>
InputDays == { PlusDays(FirstDay, n) : n \in 0 .. (MaxDates - 1) }
InputStrings == { Strftime(dt) : dt \in InputDays }

\* The range of run_optimized_approach: "26 Sep 2024" to "30 Sep 2024".
ScenarioStart == <<26, 9, 2024>>
ScenarioEnd == <<30, 9, 2024>>

\* The range of demonstrate_caching_benefits, fetched twice.
DemoStart == <<28, 9, 2024>>
DemoEnd == <<30, 9, 2024>>

\* date.strftime('%Y%m%d') read as a number: the cache key fixtures_YYYYMMDD
GetCacheKey(dt) == dt[1] * 10000 + dt[2] * 100 + dt[3]

\* Variant: the loop tests its condition after the body.
RECURSIVE DateListDoWhile(_, _)
DateListDoWhile(cur, end) ==
    <<cur>> \o (IF DateLE(NextDay(cur), end)
                THEN DateListDoWhile(NextDay(cur), end) ELSE <<>>)

\* The list built by the while loop of fetch_date_range.
RECURSIVE DateList(_, _)
DateList(cur, end) ==
    IF DateLE(cur, end) THEN <<cur>> \o DateList(NextDay(cur), end) ELSE <<>>

\* ------------------------------------------------------------- contents
\* A text is [of, ver]: ver = 0 is the empty string, ver >= 1 a non-empty
\* text, and Doc(key) the document the endpoint has for the date with cache
\* key `of` (a fetch never looks inside a document).
None == [of |-> 0, ver |-> -1]
Corrupt == [of |-> 0, ver |-> -2]   \* a cache file that does not unpickle
EmptyText == [of |-> 0, ver |-> 0]
Doc(key) == [of |-> key, ver |-> 1]
Bodies(key) == {EmptyText, Doc(key)}

\* Variant: the test is `is not None`.
TruthyNotNone(c) == c.ver >= 0

\* Python truth value of an Optional[str]
Truthy(c) == c.ver > 0

EmptyMap == [k \in {} |-> None]
Put(f, k, v) == [x \in (DOMAIN f) \cup {k} |-> IF x = k THEN v ELSE f[x]]

Ev(e, n) == [ev |-> e, n |-> n]

RECURSIVE Pow2(_)
Pow2(k) == IF k = 0 THEN 1 ELSE 2 * Pow2(k - 1)

\* The cache directory accepts writes ("ok"), refuses to open a file for
\* writing ("readonly"), or opens and truncates it and then fails the dump
\* ("full").
DiskStates == {"ok", "readonly", "full"}

\* The days an earlier run may have left a cache file for: the first and the
\* last of the input days.
CachedDays == {FirstDay, PlusDays(FirstDay, MaxDates - 1)}

\* What a cache directory left by earlier runs can hold: files for any of
\* those days, all of one kind (documents, empty bodies, or damaged files).
InitialCaches ==
    { [k \in { GetCacheKey(dt) : dt \in S } |->
          IF kind = "doc" THEN Doc(k)
          ELSE IF kind = "empty" THEN EmptyText ELSE Corrupt] :
      S \in SUBSET CachedDays, kind \in {"doc", "empty", "corrupt"} }

VARIABLES
    cache,        \* cache_dir/*.pkl: cache key -> pickled content or Corrupt
    disk,         \* how the cache directory answers writes
    stats,        \* self.stats
    phase,        \* "idle" | "running": a fetch_date_range call in progress
    use_parallel, \* argument of the running (or last) call
    dates,        \* the list `dates` of the running (or last) call
    results,      \* the dict `results` of the running (or last) call
    pc,           \* per task: position in _fetch_single_date
    attempt,      \* per task: loop variable of the retry loop
    reg,          \* per task: the counter value read by the pending += 1
    xml,          \* per task: cached_data / xml_content
    ret,          \* per task: what _fetch_single_date returned
    log,          \* per task: history of sleeps, requests and increments
    calls,        \* number of fetch_date_range calls so far
    stats0,       \* history: stats when the running (or last) call began
    cache0,       \* history: cache when the running (or last) call began
    incs,         \* history: += 1 statements completed, per counter
    args,         \* history: start_date, end_date of the running (or last) call
    snapshot,     \* what the last get_statistics call returned
    xml_data,     \* argument of the last consolidate_xml call, in dict order
    sections,     \* the DateSection children of the last consolidated root
    endpoint      \* per cache key: what the endpoint is set to answer, if set

vars == <<cache, disk, stats, phase, use_parallel, dates, results, pc,
          attempt, reg, xml, ret, log, calls, stats0, cache0, incs, args,
          snapshot, xml_data, sections, endpoint>>

taskVars == <<pc, attempt, reg, xml, ret, log>>
outVars == <<snapshot, xml_data, sections>>
callVars == <<disk, phase, use_parallel, dates, calls, stats0, cache0, args,
              outVars, endpoint>>

Tasks == 1 .. Len(dates)
Active == {"hit_wr", "attempt", "api_wr", "fail_wr"}
Running == { i \in Tasks : pc[i] \in Active }

ZeroStats == [cache_hits |-> 0, api_calls |-> 0, failed_requests |-> 0,
              total_fixtures |-> 0]

NoRet == [kind |-> "none", content |-> None]
NoArgs == [start |-> <<0, 0, 0>>, end |-> <<0, 0, 0>>]
NoSnapshot == [taken |-> FALSE, cache_hits |-> 0, api_calls |-> 0,
               failed_requests |-> 0, total_fixtures |-> 0,
               cache_hit_rate |-> <<0, 1>>]

\* SportsDataFetcher(...) over a cache directory that may already exist.
Construct ==
    /\ stats = ZeroStats
    /\ phase = "idle"
    /\ use_parallel = TRUE
    /\ dates = <<>>
    /\ results = EmptyMap
    /\ pc = <<>>
    /\ attempt = <<>>
    /\ reg = <<>>
    /\ xml = <<>>
    /\ ret = <<>>
    /\ log = <<>>
    /\ calls = 0
    /\ stats0 = ZeroStats
    /\ cache0 = EmptyMap
    /\ incs = ZeroStats
    /\ args = NoArgs
    /\ snapshot = NoSnapshot
    /\ xml_data = <<>>
    /\ sections = <<>>

Init ==
    /\ cache \in InitialCaches
    /\ disk \in DiskStates
    /\ endpoint = EmptyMap
    /\ Construct

\* fetch_date_range up to the dispatch: the date list and the empty results.
BeginCall(start_date, end_date, par) ==
    /\ phase = "idle"
    /\ phase' = "running"
    /\ calls' = calls + 1
    /\ use_parallel' = par
    /\ dates' = DateList(Strptime(start_date), Strptime(end_date))
    /\ results' = EmptyMap
    /\ pc' = [i \in 1 .. Len(dates') |-> "queued"]
    /\ attempt' = [i \in 1 .. Len(dates') |-> 0]
    /\ reg' = [i \in 1 .. Len(dates') |-> 0]
    /\ xml' = [i \in 1 .. Len(dates') |-> None]
    /\ ret' = [i \in 1 .. Len(dates') |-> NoRet]
    /\ log' = [i \in 1 .. Len(dates') |-> <<>>]
    /\ stats0' = stats
    /\ cache0' = cache
    /\ args' = [start |-> start_date, end |-> end_date]
    /\ UNCHANGED <<cache, disk, stats, incs, outVars, endpoint>>

\* One call on the new fetcher, for any two input dates and either mode.
FetchDateRange ==
    /\ calls = 0
    /\ \E s \in InputStrings, e \in InputStrings, par \in BOOLEAN :
           BeginCall(s, e, par)

\* Variant: the pool takes one thread more than max_workers.
FreeThreadOffByOne(n) == n <= max_workers

\* ThreadPoolExecutor(max_workers=self.max_workers) starts a queued task only
\* while fewer than max_workers of its threads are busy.
FreeThread(n) == n < max_workers

\* A task may start when the pool has a free thread and every task submitted
\* before it has started (the pool's work queue is FIFO); in sequential mode
\* when the one before it has been stored.
MayStart(i) ==
    /\ phase = "running"
    /\ i \in Tasks
    /\ pc[i] = "queued"
    /\ \A j \in 1 .. (i - 1) : pc[j] # "queued"
    /\ IF use_parallel THEN FreeThread(Cardinality(Running))
       ELSE \A j \in 1 .. (i - 1) : pc[j] = "collected"

\* Variant: the hit is taken as soon as the file exists.
ReadableIfExists(c, key) == key \in DOMAIN c

\* cache_file.exists() and pickle.load(f) returns
Readable(c, key) == key \in DOMAIN c /\ c[key] # Corrupt

\* _load_from_cache up to the read of stats['cache_hits']
LoadFromCache(i) ==
    LET key == GetCacheKey(dates[i]) IN
    /\ MayStart(i)
    /\ IF Readable(cache, key)
       THEN /\ xml' = [xml EXCEPT ![i] = cache[key]]
            /\ reg' = [reg EXCEPT ![i] = stats.cache_hits]
            /\ pc' = [pc EXCEPT ![i] = "hit_wr"]
       ELSE /\ xml' = [xml EXCEPT ![i] = None]
            /\ pc' = [pc EXCEPT ![i] = "attempt"]
            /\ UNCHANGED reg
    /\ UNCHANGED <<cache, stats, results, attempt, ret, log, callVars, incs>>

\* the write of stats['cache_hits'], return data, and `if cached_data:`
CacheHit(i) ==
    /\ phase = "running"
    /\ i \in Tasks
    /\ pc[i] = "hit_wr"
    /\ stats' = [stats EXCEPT !.cache_hits = reg[i] + 1]
    /\ incs' = [incs EXCEPT !.cache_hits = @ + 1]
    /\ log' = [log EXCEPT ![i] = Append(@, Ev("inc_cache_hits", 0))]
    /\ IF Truthy(xml[i])
       THEN /\ ret' = [ret EXCEPT ![i] = [kind |-> "hit", content |-> xml[i]]]
            /\ pc' = [pc EXCEPT ![i] = "done"]
       ELSE /\ pc' = [pc EXCEPT ![i] = "attempt"]
            /\ UNCHANGED ret
    /\ UNCHANGED <<cache, results, attempt, reg, xml, callVars>>

\* Variant: a file that is already there is not written again.
SaveToCacheKeepsOld(c, key, data, d) ==
    IF key \in DOMAIN c THEN c
    ELSE IF d = "ok" THEN Put(c, key, data)
    ELSE IF d = "full" THEN Put(c, key, Corrupt)
    ELSE c

\* Variant: the fetched body is never written to the cache directory.
SaveToCacheNever(c, key, data, d) == c

\* _save_to_cache
SaveToCache(c, key, data, d) ==
    IF d = "ok" THEN Put(c, key, data)
    ELSE IF d = "full" THEN Put(c, key, Corrupt)
    ELSE c

\* Variant: the backoff sleep is taken after the last attempt too.
MayRetryAfterLast(k) == k < retry_attempts

\* if attempt < self.retry_attempts - 1
MayRetry(k) == k < retry_attempts - 1

\* the argument of time.sleep(2 ** attempt)
Backoff(k) == Pow2(k)

\* Variant: a failed write escapes _save_to_cache into the retry loop.
SaveRaisesOnFailure(d) == d # "ok"

\* Whether _save_to_cache lets an exception out: its except clause catches
\* every failure of the write.
SaveRaises(d) == FALSE

\* What attempt k does before it counts anything: the rate-limit sleep,
\* the request, and after a 2xx answer the call of _save_to_cache.
AttemptEvents(k, ok) ==
    <<Ev("delay", 0), Ev(IF ok THEN "http_ok" ELSE "http_fail", 0)>>
    \o (IF ok THEN <<Ev("save", 0)>> ELSE <<>>)

\* Variant: the attempt writes the cache file whether or not it was answered.
CacheAfterAttemptAlways(c, key, ok, body, d) == SaveToCache(c, key, body, d)

\* _save_to_cache is called inside the try, after raise_for_status: an
\* attempt that raised leaves the cache directory alone.
CacheAfterAttempt(c, key, ok, body, d) ==
    IF ok THEN SaveToCache(c, key, body, d) ELSE c

\* Variant: the loop goes on after its last value.
HasNextAttemptOffByOne(k) == k < retry_attempts

\* for attempt in range(self.retry_attempts): there is a value after k
HasNextAttempt(k) == k + 1 < retry_attempts

\* One iteration of the retry loop up to the next read of a counter: the
\* request raises (ok = FALSE) or yields a decoded body.
HttpAttempt(i, ok, body) ==
    LET key == GetCacheKey(dates[i])
        k == attempt[i]
        tried == log[i] \o AttemptEvents(k, ok)
        succeeded == ok /\ ~SaveRaises(disk)
    IN
    /\ phase = "running"
    /\ i \in Tasks
    /\ pc[i] = "attempt"
    /\ k < retry_attempts
    /\ cache' = CacheAfterAttempt(cache, key, ok, body, disk)
    /\ IF succeeded
       THEN /\ xml' = [xml EXCEPT ![i] = body]
            /\ reg' = [reg EXCEPT ![i] = stats.api_calls]
            /\ log' = [log EXCEPT ![i] = tried]
            /\ pc' = [pc EXCEPT ![i] = "api_wr"]
            /\ UNCHANGED attempt
       ELSE /\ attempt' = [attempt EXCEPT ![i] = k + 1]
            /\ xml' = [xml EXCEPT ![i] = IF ok THEN body ELSE @]
            /\ log' = [log EXCEPT ![i] =
                          IF MayRetry(k)
                          THEN Append(tried, Ev("backoff", Backoff(k)))
                          ELSE tried]
            /\ IF HasNextAttempt(k)
               THEN UNCHANGED <<pc, reg>>
               ELSE /\ reg' = [reg EXCEPT ![i] = stats.failed_requests]
                    /\ pc' = [pc EXCEPT ![i] = "fail_wr"]
    /\ UNCHANGED <<stats, results, ret, callVars, incs>>

\* the write of stats['api_calls'] and return date, xml_content
NetworkSuccess(i) ==
    /\ phase = "running"
    /\ i \in Tasks
    /\ pc[i] = "api_wr"
    /\ stats' = [stats EXCEPT !.api_calls = reg[i] + 1]
    /\ incs' = [incs EXCEPT !.api_calls = @ + 1]
    /\ log' = [log EXCEPT ![i] = Append(@, Ev("inc_api_calls", 0))]
    /\ ret' = [ret EXCEPT ![i] = [kind |-> "network", content |-> xml[i]]]
    /\ pc' = [pc EXCEPT ![i] = "done"]
    /\ UNCHANGED <<cache, results, attempt, reg, xml, callVars>>

\* the write of stats['failed_requests'] and return date, None
AllAttemptsFailed(i) ==
    /\ phase = "running"
    /\ i \in Tasks
    /\ pc[i] = "fail_wr"
    /\ stats' = [stats EXCEPT !.failed_requests = reg[i] + 1]
    /\ incs' = [incs EXCEPT !.failed_requests = @ + 1]
    /\ log' = [log EXCEPT ![i] = Append(@, Ev("inc_failed_requests", 0))]
    /\ ret' = [ret EXCEPT ![i] = [kind |-> "failure", content |-> None]]
    /\ pc' = [pc EXCEPT ![i] = "done"]
    /\ UNCHANGED <<cache, results, attempt, reg, xml, callVars>>

\* Variant: the result is stored without the test of xml_content.
StoreUnchecked(res, dt, content) == Put(res, dt, content)

\* if xml_content: results[date] = xml_content
Store(res, dt, content) ==
    IF Truthy(content) THEN Put(res, dt, content) ELSE res

\* The body of the as_completed loop, or of the sequential loop after the
\* call.  The task's locals die here; what it returned is kept.
Collect(i) ==
    /\ phase = "running"
    /\ i \in Tasks
    /\ pc[i] = "done"
    /\ results' = Store(results, dates[i], ret[i].content)
    /\ pc' = [pc EXCEPT ![i] = "collected"]
    /\ attempt' = [attempt EXCEPT ![i] = 0]
    /\ reg' = [reg EXCEPT ![i] = 0]
    /\ xml' = [xml EXCEPT ![i] = None]
    /\ log' = [log EXCEPT ![i] = <<>>]
    /\ UNCHANGED <<cache, stats, ret, callVars, incs>>

\* return results
Return ==
    /\ phase = "running"
    /\ \A i \in Tasks : pc[i] = "collected"
    /\ phase' = "idle"
    /\ UNCHANGED <<cache, disk, stats, use_parallel, dates, results,
                   taskVars, calls, stats0, cache0, incs, args, outVars,
                   endpoint>>

\* clear_cache, between calls
ClearCache ==
    /\ phase = "idle"
    /\ cache # EmptyMap
    /\ cache' = EmptyMap
    /\ UNCHANGED <<disk, stats, phase, use_parallel, dates, results,
                   taskVars, calls, stats0, cache0, incs, args, outVars,
                   endpoint>>

Next ==
    \/ FetchDateRange
    \/ \E i \in Tasks : LoadFromCache(i)
    \/ \E i \in Tasks : CacheHit(i)
    \/ \E i \in Tasks, ok \in BOOLEAN :
          \E body \in IF ok THEN Bodies(GetCacheKey(dates[i])) ELSE {None} :
             HttpAttempt(i, ok, body)
    \/ \E i \in Tasks : NetworkSuccess(i)
    \/ \E i \in Tasks : AllAttemptsFailed(i)
    \/ \E i \in Tasks : Collect(i)
    \/ Return
    \/ ClearCache

Spec == Init /\ [][Next]_vars

\* Some fetch, or the collection of its result, takes its next step.
Work ==
    \E i \in Tasks :
        \/ LoadFromCache(i)
        \/ CacheHit(i)
        \/ \E ok \in BOOLEAN :
              \E body \in IF ok THEN Bodies(GetCacheKey(dates[i])) ELSE {None} :
                 HttpAttempt(i, ok, body)
        \/ NetworkSuccess(i)
        \/ AllAttemptsFailed(i)
        \/ Collect(i)

\* A fetcher over any cache directory that takes its writes.
InitLive ==
    /\ cache \in InitialCaches
    /\ disk = "ok"
    /\ endpoint = EmptyMap
    /\ Construct

\* The same program where threads keep running: every sleep ends, every
\* request returns or hits its timeout of 10 seconds, a thread that can go
\* on does, and so does the caller once all results are in.
SpecLive == InitLive /\ [][Next]_vars /\ WF_vars(Work) /\ WF_vars(Return)

\* ------------------------------------------------------------------------
\* demonstrate_caching_benefits: a cold cache, a healthy disk, the range
\* "28 Sep 2024" to "30 Sep 2024" fetched twice by one fetcher in the same
\* mode, every request answered 200 at the first attempt with any body.
InitRerun ==
    /\ cache = EmptyMap
    /\ disk = "ok"
    /\ endpoint = EmptyMap
    /\ Construct

SameMode == IF calls = 0 THEN BOOLEAN ELSE {use_parallel}

FetchDemoRange ==
    /\ calls < Reruns
    /\ \E par \in SameMode : BeginCall(DemoStart, DemoEnd, par)

NextRerun ==
    \/ FetchDemoRange
    \/ \E i \in Tasks : LoadFromCache(i)
    \/ \E i \in Tasks : CacheHit(i)
    \/ \E i \in Tasks : \E body \in Bodies(GetCacheKey(dates[i])) :
          HttpAttempt(i, TRUE, body)
    \/ \E i \in Tasks : NetworkSuccess(i)
    \/ \E i \in Tasks : Collect(i)
    \/ Return

SpecRerun == InitRerun /\ [][NextRerun]_vars

\* ------------------------------------------------------------------------
\* The concrete scenario of the specification: a cold cache, a healthy disk,
\* the range "26 Sep 2024" to "30 Sep 2024" fetched and fetched again, every
\* request answered 200 at the first attempt with the day's document.
FetchScenarioRange ==
    /\ calls < Reruns
    /\ \E par \in SameMode : BeginCall(ScenarioStart, ScenarioEnd, par)

NextScenario ==
    \/ FetchScenarioRange
    \/ \E i \in Tasks : LoadFromCache(i)
    \/ \E i \in Tasks : CacheHit(i)
    \/ \E i \in Tasks : HttpAttempt(i, TRUE, Doc(GetCacheKey(dates[i])))
    \/ \E i \in Tasks : NetworkSuccess(i)
    \/ \E i \in Tasks : Collect(i)
    \/ Return

SpecScenario == InitRerun /\ [][NextScenario]_vars

\* ------------------------------------------------------------------------
\* get_statistics on a fetcher whose counters hold any values up to MaxCount.

\* A rate is the pair <<numerator, denominator>> of the quotient Python
\* computes; the literal 0 of the else branch is <<0, 1>>.
\* Variant: the quotient is computed without the test of total_requests.
HitRateUnguarded(hits, total_requests) == <<hits, total_requests>>

\* cache_hits / total_requests if total_requests > 0 else 0
HitRate(hits, total_requests) ==
    IF total_requests > 0 THEN <<hits, total_requests>> ELSE <<0, 1>>

\* get_statistics: a new dict of the four counters and cache_hit_rate.
GetStatistics ==
    LET total_requests == stats.cache_hits + stats.api_calls IN
    /\ phase = "idle"
    /\ snapshot' = [taken |-> TRUE,
                    cache_hits |-> stats.cache_hits,
                    api_calls |-> stats.api_calls,
                    failed_requests |-> stats.failed_requests,
                    total_fixtures |-> stats.total_fixtures,
                    cache_hit_rate |-> HitRate(stats.cache_hits,
                                               total_requests)]
    /\ UNCHANGED <<cache, disk, stats, phase, use_parallel, dates, results,
                   taskVars, calls, stats0, cache0, incs, args, xml_data,
                   sections, endpoint>>

Counters == [cache_hits : 0 .. MaxCount, api_calls : 0 .. MaxCount,
             failed_requests : 0 .. MaxCount, total_fixtures : 0 .. MaxCount]

InitStatistics ==
    /\ stats \in Counters
    /\ stats0 = stats
    /\ cache = EmptyMap
    /\ disk = "ok"
    /\ phase = "idle"
    /\ use_parallel = TRUE
    /\ dates = <<>>
    /\ results = EmptyMap
    /\ pc = <<>>
    /\ attempt = <<>>
    /\ reg = <<>>
    /\ xml = <<>>
    /\ ret = <<>>
    /\ log = <<>>
    /\ calls = 0
    /\ cache0 = EmptyMap
    /\ incs = ZeroStats
    /\ args = NoArgs
    /\ snapshot = NoSnapshot
    /\ xml_data = <<>>
    /\ sections = <<>>
    /\ endpoint = EmptyMap

NextStatistics == GetStatistics

SpecStatistics == InitStatistics /\ [][NextStatistics]_vars

\* ------------------------------------------------------------------------
\* consolidate_xml on any mapping of up to MaxSections dates.

\* A well-formed document of the date with cache key `key` and n child
\* elements under its root.
XmlDoc(key, n) == [of |-> key, ver |-> n + 1]

\* A non-empty text that is not well-formed XML.
Garbled == [of |-> 0, ver |-> 1]

\* fromstring(xml_content) returns an element (it raises ParseError on ''
\* and on text that is not well-formed).
Parses(c) == c.ver >= 1 /\ c.of # 0

\* The number of iterations of `for child in parsed_xml`.
Children(c) == c.ver - 1

\* date.strftime("%Y-%m-%d")
StrftimeIso(dt) == <<dt[1], dt[2], dt[3]>>

\* xml_data is a dict: its items in insertion order, no key twice.
Keys(data) == [j \in 1 .. Len(data) |-> data[j].date]
Lookup(data, dt) == data[CHOOSE j \in 1 .. Len(data) : data[j].date = dt].content

RECURSIVE InsertKey(_, _)
InsertKey(dt, keys) ==
    IF keys = <<>> THEN <<dt>>
    ELSE IF DateLE(dt, Head(keys)) THEN <<dt>> \o keys
    ELSE <<Head(keys)>> \o InsertKey(dt, Tail(keys))

\* Variant: the keys are taken in the order of the dict.
SortedKeysAsInserted(keys) == keys

\* sorted(xml_data.keys())
RECURSIVE SortedKeys(_)
SortedKeys(keys) ==
    IF keys = <<>> THEN <<>>
    ELSE InsertKey(Head(keys), SortedKeys(Tail(keys)))

\* Variant: the count of this call is added to the counter.
NewTotalAdded(old, fixture_count) == old + fixture_count

\* self.stats['total_fixtures'] = fixture_count
NewTotal(old, fixture_count) == fixture_count

\* The for loop of consolidate_xml over the dates left in `keys`: acc holds
\* root (the DateSection elements appended so far) and fixture_count.
RECURSIVE Consolidate(_, _, _)
Consolidate(keys, data, acc) ==
    IF keys = <<>> THEN acc
    ELSE LET date == Head(keys)
             xml_content == Lookup(data, date)
         IN IF Parses(xml_content)
            THEN Consolidate(Tail(keys), data,
                    [root |-> Append(acc.root,
                                 [date |-> StrftimeIso(date),
                                  of |-> xml_content.of,
                                  children |-> Children(xml_content)]),
                     fixture_count |-> acc.fixture_count
                                          + Children(xml_content)])
            ELSE Consolidate(Tail(keys), data, acc)

\* consolidate_xml(xml_data): the loop, the write of the output file into
\* the cache directory (an error of the write is not caught), the counter.
ConsolidateXml ==
    LET out == Consolidate(SortedKeys(Keys(xml_data)), xml_data,
                           [root |-> <<>>, fixture_count |-> 0])
    IN
    /\ phase = "idle"
    /\ IF disk = "ok"
       THEN /\ sections' = out.root
            /\ stats' = [stats EXCEPT
                            !.total_fixtures = NewTotal(@, out.fixture_count)]
            /\ UNCHANGED phase
       ELSE /\ phase' = "raised"
            /\ sections' = IF disk = "full" THEN <<>> ELSE sections
            /\ UNCHANGED stats
    /\ UNCHANGED <<cache, disk, use_parallel, dates, results, taskVars, calls,
                   stats0, cache0, incs, args, snapshot, xml_data,
                   endpoint>>

SectionDays == { PlusDays(FirstDay, n) : n \in 0 .. (MaxSections - 1) }

Texts(key) ==
    {EmptyText, Garbled} \cup { XmlDoc(key, n) : n \in 0 .. MaxChildren }

Entries ==
    UNION { [date : {dt}, content : Texts(GetCacheKey(dt))] :
              dt \in SectionDays }

\* The mappings a caller can hand over: any dates in any insertion order.
Mappings ==
    UNION { { d \in [1 .. n -> Entries] :
                \A i, j \in 1 .. n : i # j => d[i].date # d[j].date } :
            n \in 0 .. MaxSections }

InitConsolidate ==
    /\ xml_data \in Mappings
    /\ \E n \in {0, MaxCount} :      \* the count an earlier call left
          stats = [ZeroStats EXCEPT !.total_fixtures = n]
    /\ stats0 = stats
    /\ disk \in DiskStates
    /\ cache = EmptyMap
    /\ phase = "idle"
    /\ use_parallel = TRUE
    /\ dates = <<>>
    /\ results = EmptyMap
    /\ pc = <<>>
    /\ attempt = <<>>
    /\ reg = <<>>
    /\ xml = <<>>
    /\ ret = <<>>
    /\ log = <<>>
    /\ calls = 0
    /\ cache0 = EmptyMap
    /\ incs = ZeroStats
    /\ args = NoArgs
    /\ snapshot = NoSnapshot
    /\ sections = <<>>
    /\ endpoint = EmptyMap

NextConsolidate == ConsolidateXml

SpecConsolidate == InitConsolidate /\ [][NextConsolidate]_vars

\* ------------------------------------------------------------------------
\* One call against an endpoint whose behaviour is fixed per date, run in
\* either mode.

\* The endpoint fails the requests of a date before attempt number `after`
\* and answers `body` from then on; after = retry_attempts is a date it
\* never answers within the attempts of one fetch.
AnswerAfter == {0, retry_attempts - 1}

Scripts(key) ==
    [after : AnswerAfter, body : Bodies(key)]
    \cup {[after |-> retry_attempts, body |-> None]}

Endpoints ==
    { e \in [{ GetCacheKey(dt) : dt \in InputDays } ->
                UNION { Scripts(GetCacheKey(dt)) : dt \in InputDays }] :
        \A k \in DOMAIN e : e[k] \in Scripts(k) }

\* An iteration of the retry loop against that endpoint.
ScriptedAttempt(i) ==
    /\ i \in Tasks
    /\ LET s == endpoint[GetCacheKey(dates[i])]
           ok == attempt[i] >= s.after
       IN HttpAttempt(i, ok, IF ok THEN s.body ELSE None)

InitModes ==
    /\ cache \in InitialCaches
    /\ disk \in DiskStates
    /\ endpoint \in Endpoints
    /\ Construct

NextModes ==
    \/ FetchDateRange
    \/ \E i \in Tasks : LoadFromCache(i)
    \/ \E i \in Tasks : CacheHit(i)
    \/ \E i \in Tasks : ScriptedAttempt(i)
    \/ \E i \in Tasks : NetworkSuccess(i)
    \/ \E i \in Tasks : AllAttemptsFailed(i)
    \/ \E i \in Tasks : Collect(i)
    \/ Return

SpecModes == InitModes /\ [][NextModes]_vars

\* ------------------------------------------------------------------------
\* Vocabulary of the properties
HasEv(l, e) == \E j \in 1 .. Len(l) : l[j].ev = e
CountEv(l, e) == Cardinality({ j \in 1 .. Len(l) : l[j].ev = e })
Requested(l) == HasEv(l, "http_ok") \/ HasEv(l, "http_fail")
KeyOf(i) == GetCacheKey(dates[i])

\* every task of the call has returned and its result has been stored
CallComplete == calls > 0 /\ \A i \in Tasks : pc[i] = "collected"
Fresh == stats0 = ZeroStats

\* C1: a fetch that found a readable cache entry, and so counted a cache
\* hit, makes no network request and returns the cached content, whatever
\* that content is.
C1_HitIssuesNoRequest ==
    \A i \in Tasks :
        HasEv(log[i], "inc_cache_hits") =>
            /\ pc[i] \notin {"attempt", "api_wr", "fail_wr"}
            /\ ~Requested(log[i])
            /\ ~HasEv(log[i], "inc_api_calls")
            /\ pc[i] = "done" => ret[i] = [kind |-> "hit",
                                            content |-> cache0[KeyOf(i)]]

\* C2: after a call of a fresh fetcher on N dates,
\* cache_hits + api_calls + failed_requests = N.
C2_CountersSumToN ==
    (CallComplete /\ Fresh) =>
        stats.cache_hits + stats.api_calls + stats.failed_requests
            = Len(dates)

\* C3: no increment of a counter is lost: once no += is in flight, every
\* counter holds the number of += statements executed on it since
\* construction.
C3_NoLostIncrement ==
    (\A i \in Tasks : pc[i] \notin {"hit_wr", "api_wr", "fail_wr"}) =>
        /\ stats.cache_hits = incs.cache_hits
        /\ stats.api_calls = incs.api_calls
        /\ stats.failed_requests = incs.failed_requests

\* The history of a fetch whose n attempts all fail, from attempt k on.
RECURSIVE FailedAttempts(_, _)
FailedAttempts(k, n) ==
    IF k >= n THEN <<>>
    ELSE <<Ev("delay", 0), Ev("http_fail", 0)>>
         \o (IF k + 1 < n THEN <<Ev("backoff", Pow2(k))>> ELSE <<>>)
         \o FailedAttempts(k + 1, n)

NoEntryAllFailed(i) ==
    /\ KeyOf(i) \notin DOMAIN cache0
    /\ pc[i] = "done"
    /\ ~HasEv(log[i], "http_ok")

\* C4: a fetch of a date with no cache entry whose attempts all fail makes
\* exactly retry_attempts requests, sleeps 2^k after failed attempt k for
\* k = 0 .. retry_attempts - 2 and not after the last, then increments
\* failed_requests once and returns (date, None).
C4_RetryBound ==
    \A i \in Tasks :
        NoEntryAllFailed(i) =>
            /\ log[i] = FailedAttempts(0, retry_attempts)
                           \o <<Ev("inc_failed_requests", 0)>>
            /\ CountEv(log[i], "http_fail") = retry_attempts
            /\ CountEv(log[i], "backoff") = retry_attempts - 1
            /\ ret[i] = [kind |-> "failure", content |-> None]

C4_Witness ==
    \E i \in Tasks : NoEntryAllFailed(i) /\ attempt[i] = retry_attempts

\* C5: the second of two calls on the same range, with the cache untouched
\* in between, returns for every date the first call cached the cached
\* content, and adds nothing to api_calls.
C5_SecondCallIdempotent ==
    (calls = Reruns /\ CallComplete) =>
        /\ \A i \in Tasks :
               Readable(cache0, KeyOf(i)) =>
                   /\ dates[i] \in DOMAIN results
                   /\ results[dates[i]] = cache0[KeyOf(i)]
        /\ stats.api_calls = stats0.api_calls

OnlyFailure(f) ==
    /\ ret[f].kind = "failure"
    /\ \A j \in Tasks \ {f} : ret[j].kind = "network"

\* C6: when one date of the range fails on every attempt and the requests
\* of the others succeed, the call returns a mapping without the failing
\* date and with every other date under its fetched content, and
\* failed_requests has grown by 1.
C6_FailureIsolation ==
    CallComplete =>
        \A f \in Tasks :
            OnlyFailure(f) =>
                /\ dates[f] \notin DOMAIN results
                /\ stats.failed_requests = stats0.failed_requests + 1
                /\ \A j \in Tasks \ {f} :
                       /\ dates[j] \in DOMAIN results
                       /\ results[dates[j]] = ret[j].content

\* C7: every entry of the result mapping belongs to a date of the range
\* whose fetch returned a cache hit or a network success and holds exactly
\* the content that fetch returned; a date whose fetch failed has no entry.
C7_ResultsOnlySuccesses ==
    /\ \A d \in DOMAIN results :
           \E i \in Tasks :
               /\ dates[i] = d
               /\ pc[i] = "collected"
               /\ ret[i].kind \in {"hit", "network"}
               /\ results[d] = ret[i].content
    /\ \A i \in Tasks :
           ret[i].kind = "failure" => dates[i] \notin DOMAIN results

C7_Witness ==
    /\ CallComplete
    /\ \E i \in Tasks, j \in Tasks :
           /\ ret[i].kind = "failure"
           /\ ret[j].kind = "hit" /\ dates[j] \in DOMAIN results
           /\ i # j

\* C8: in the scenario the first call returns ScenarioDays entries and
\* leaves api_calls = ScenarioDays, cache_hits = 0, failed_requests = 0; the
\* second call adds ScenarioDays cache hits and no api call.
C8_ConcreteScenario ==
    /\ (calls = 1 /\ CallComplete) =>
           /\ Len(dates) = ScenarioDays
           /\ Cardinality(DOMAIN results) = ScenarioDays
           /\ stats.api_calls = ScenarioDays
           /\ stats.cache_hits = 0
           /\ stats.failed_requests = 0
    /\ (calls = 2 /\ CallComplete) =>
           /\ stats.cache_hits - stats0.cache_hits = ScenarioDays
           /\ stats.api_calls - stats0.api_calls = 0

\* C9: one fetch increments at most one of cache_hits and api_calls, so
\* after a call of a fresh fetcher cache_hits + api_calls <= number of dates.
C9_HitOrCallNotBoth ==
    /\ \A i \in Tasks :
           ~(HasEv(log[i], "inc_cache_hits") /\ HasEv(log[i], "inc_api_calls"))
    /\ (CallComplete /\ Fresh) =>
           stats.cache_hits + stats.api_calls <= Len(dates)

HadCorruptEntry(i) ==
    KeyOf(i) \in DOMAIN cache0 /\ cache0[KeyOf(i)] = Corrupt

\* C10: a fetch whose cache file exists and cannot be read goes on as if
\* the file were absent: it counts no cache hit, returns like any fetch,
\* and enters the retry loop with nothing loaded.
C10_CorruptEntryIsMiss ==
    /\ \A i \in Tasks :
           (HadCorruptEntry(i) /\ pc[i] # "queued") =>
               /\ pc[i] # "hit_wr"
               /\ ~HasEv(log[i], "inc_cache_hits")
               /\ (pc[i] = "attempt" /\ attempt[i] = 0) =>
                      (log[i] = <<>> /\ xml[i] = None)
               /\ pc[i] \in {"done", "collected"} =>
                      ret[i].kind \in {"network", "failure"}
               /\ pc[i] = "done" => log[i][1] = Ev("delay", 0)
    /\ (\A i \in Tasks : HadCorruptEntry(i)) =>
           (stats.cache_hits = stats0.cache_hits /\ incs.cache_hits = 0)

C10_Witness ==
    \E i \in Tasks :
        HadCorruptEntry(i) /\ pc[i] = "done" /\ ret[i].kind = "network"

WriteFailed(i) ==
    /\ disk # "ok"
    /\ pc[i] = "done"
    /\ HasEv(log[i], "save")

\* C11: when the request of a date is answered and the write of its cache
\* file fails, the fetch returns the fetched content as a network success
\* after counting one api call; it counts no failure and makes no further
\* attempt.
C11_FailedWriteNotFatal ==
    \A i \in Tasks :
        WriteFailed(i) =>
            /\ ret[i] = [kind |-> "network", content |-> xml[i]]
            /\ xml[i] \in Bodies(KeyOf(i))
            /\ CountEv(log[i], "http_ok") = 1
            /\ CountEv(log[i], "inc_api_calls") = 1
            /\ ~HasEv(log[i], "inc_failed_requests")
            /\ SubSeq(log[i], Len(log[i]) - 2, Len(log[i]))
                  = <<Ev("http_ok", 0), Ev("save", 0), Ev("inc_api_calls", 0)>>
            /\ ~Readable(cache, KeyOf(i)) \/ cache[KeyOf(i)] = cache0[KeyOf(i)]

C11_Witness ==
    \E i \in Tasks :
        /\ WriteFailed(i)
        /\ ret[i].kind = "network"
        /\ Truthy(ret[i].content)
        /\ ~Readable(cache, KeyOf(i))

\* C12: a cache entry, once written for a date, keeps its content through
\* every later step of every fetch (no step other than clear_cache changes
\* or removes it).
C12_CacheEntryImmutable ==
    [][\A k \in DOMAIN cache :
          \/ cache' = EmptyMap /\ phase = "idle" /\ phase' = "idle"
          \/ k \in DOMAIN cache' /\ cache'[k] = cache[k]]_vars

\* C13: at every moment the number of fetches that have started and not yet
\* returned is at most max_workers in parallel mode and at most one in
\* sequential mode, also when the range has more days than the pool has
\* threads.
C13_WorkerBound ==
    Cardinality(Running) <= (IF use_parallel THEN max_workers ELSE 1)

C13_SequentialWitness ==
    /\ ~use_parallel
    /\ Cardinality(Running) = 1
    /\ \E i \in Tasks : pc[i] = "queued"

C13_Witness ==
    /\ use_parallel
    /\ Len(dates) > max_workers
    /\ Cardinality(Running) = max_workers
    /\ \E i \in Tasks : pc[i] = "queued"
    /\ \E i \in Tasks : pc[i] = "done"

\* The call was given a start date after its end date.
StartAfterEnd ==
    /\ calls > 0
    /\ GetCacheKey(Strptime(args.start)) > GetCacheKey(Strptime(args.end))

\* C14: a call whose start date is after its end date dispatches no fetch,
\* issues no request, leaves the cache and the counters as they were and
\* returns the empty mapping.
C14_EmptyRange ==
    StartAfterEnd =>
        /\ dates = <<>>
        /\ pc = <<>>
        /\ log = <<>>
        /\ results = EmptyMap
        /\ stats = stats0
        /\ incs = ZeroStats
        /\ cache = cache0 \/ (phase = "idle" /\ cache = EmptyMap)
        /\ phase = "running" => ENABLED Return

C14_Witness ==
    /\ StartAfterEnd
    /\ phase = "idle"
    /\ results = EmptyMap
    /\ cache # EmptyMap
\* C15: get_statistics returns cache_hit_rate = cache_hits / (cache_hits +
\* api_calls) when that sum is positive and 0 when it is 0, never divides by
\* zero, and returns the other counters as they are without changing them.
C15_HitRate ==
    snapshot.taken =>
        LET total == stats0.cache_hits + stats0.api_calls
            rate == snapshot.cache_hit_rate
        IN /\ rate[2] > 0
           /\ total > 0 => rate[1] * total = stats0.cache_hits * rate[2]
           /\ total = 0 => rate[1] = 0
           /\ stats = stats0
           /\ \A k \in DOMAIN stats0 : snapshot[k] = stats0[k]

C15_Witness ==
    /\ snapshot.taken
    /\ stats.cache_hits + stats.api_calls = 0
    /\ stats.failed_requests > 0
    /\ stats.total_fixtures > 0

C15_PositiveWitness ==
    /\ snapshot.taken
    /\ stats.cache_hits > 0
    /\ stats.api_calls > 0
IsRequest(e) == e.ev \in {"http_ok", "http_fail"}

\* C17: every request of a fetch, the first included, comes right after one
\* rate-limit delay, and a fetch that found a readable cache entry (and
\* counted the hit) sleeps neither for the delay nor for a backoff.
C17_DelayOnlyOnMiss ==
    \A i \in Tasks :
        /\ \A j \in 1 .. Len(log[i]) :
              IsRequest(log[i][j]) => j > 1 /\ log[i][j - 1] = Ev("delay", 0)
        /\ CountEv(log[i], "delay")
              = CountEv(log[i], "http_ok") + CountEv(log[i], "http_fail")
        /\ HasEv(log[i], "inc_cache_hits") =>
              ~HasEv(log[i], "delay") /\ ~HasEv(log[i], "backoff")
Succeeded(i) == pc[i] = "done" /\ ret[i].kind = "network"

\* C18: the attempt of a fetch that is answered writes the body to the cache,
\* then counts one api call, then returns the body: the cache holds the body
\* before the count, the history of the fetch ends request-ok, save, count,
\* nothing follows the count, and the fetch counts one api call whether
\* none, one or two attempts failed before.
C18_SaveCountReturn ==
    \A i \in Tasks :
        /\ pc[i] = "api_wr" =>
              /\ SubSeq(log[i], Len(log[i]) - 2, Len(log[i]))
                    = <<Ev("delay", 0), Ev("http_ok", 0), Ev("save", 0)>>
              /\ ~HasEv(log[i], "inc_api_calls")
              /\ disk = "ok" => /\ KeyOf(i) \in DOMAIN cache
                                /\ cache[KeyOf(i)] = xml[i]
        /\ Succeeded(i) =>
              /\ SubSeq(log[i], Len(log[i]) - 3, Len(log[i]))
                    = <<Ev("delay", 0), Ev("http_ok", 0), Ev("save", 0),
                        Ev("inc_api_calls", 0)>>
              /\ CountEv(log[i], "http_ok") = 1
              /\ CountEv(log[i], "save") = 1
              /\ CountEv(log[i], "inc_api_calls") = 1
              /\ CountEv(log[i], "http_fail") = attempt[i]
              /\ CountEv(log[i], "backoff") = attempt[i]
              /\ attempt[i] < retry_attempts
              /\ ret[i].content = xml[i]
              /\ disk = "ok" => /\ KeyOf(i) \in DOMAIN cache
                                /\ cache[KeyOf(i)] = ret[i].content
        /\ CountEv(log[i], "inc_api_calls") <= 1

C18_Witness ==
    \E i \in Tasks :
        /\ Succeeded(i)
        /\ disk = "ok"
        /\ attempt[i] = retry_attempts - 1
        /\ Truthy(ret[i].content)
\* b is the calendar day after a (within one year).
IsDayAfter(a, b) ==
    /\ b[1] = a[1]
    /\ \/ b[2] = a[2] /\ b[3] = a[3] + 1
       \/ /\ b[2] = a[2] + 1
          /\ b[3] = 1
          /\ a[3] = DaysInMonth(a[1], a[2])

StartNotAfterEnd ==
    /\ calls > 0
    /\ GetCacheKey(Strptime(args.start)) <= GetCacheKey(Strptime(args.end))

\* C19: for start <= end the call has one task for every calendar day from
\* start to end, both included, in ascending order, none twice and none
\* outside; the tasks are started in that order, and start = end gives one
\* task.
C19_OneTaskPerDay ==
    StartNotAfterEnd =>
        /\ Len(dates) >= 1
        /\ dates[1] = Strptime(args.start)
        /\ dates[Len(dates)] = Strptime(args.end)
        /\ \A j \in 1 .. (Len(dates) - 1) : IsDayAfter(dates[j], dates[j + 1])
        /\ DOMAIN pc = 1 .. Len(dates)
        /\ \A i, j \in Tasks : i < j /\ pc[j] # "queued" => pc[i] # "queued"
        /\ args.start = args.end => Len(dates) = 1
        /\ phase = "idle" => \A i \in Tasks : pc[i] = "collected"

C19_Witness ==
    /\ StartNotAfterEnd
    /\ CallComplete
    /\ Len(dates) = 2
    /\ dates[1] = <<2024, 9, 30>>
    /\ dates[2] = <<2024, 10, 1>>

C19_SingleDayWitness ==
    /\ StartNotAfterEnd
    /\ CallComplete
    /\ args.start = args.end
    /\ Len(dates) = 1
\* The content is a well-formed document of the date, and its child count.
WellFormed(e) ==
    \E n \in 0 .. MaxChildren : e.content = XmlDoc(GetCacheKey(e.date), n)
ChildCount(e) ==
    CHOOSE n \in 0 .. MaxChildren : e.content = XmlDoc(GetCacheKey(e.date), n)

IsoNumber(iso) == iso[1] * 10000 + iso[2] * 100 + iso[3]

SectionsOf(out, e) ==
    { k \in 1 .. Len(out) : out[k].date = <<e.date[1], e.date[2], e.date[3]>> }

RECURSIVE TotalChildren(_)
TotalChildren(data) ==
    IF data = <<>> THEN 0
    ELSE (IF WellFormed(Head(data)) THEN ChildCount(Head(data)) ELSE 0)
         + TotalChildren(Tail(data))

\* C16: whatever the insertion order of the mapping, a call of
\* consolidate_xml that returns has written its date sections in strictly
\* ascending date order, one section for each date whose content parsed.
C16_SectionsAscending ==
    [][phase' = "idle" =>
          /\ \A k \in 1 .. (Len(sections') - 1) :
                IsoNumber(sections'[k].date) < IsoNumber(sections'[k + 1].date)
          /\ \A j \in 1 .. Len(xml_data) :
                WellFormed(xml_data[j]) =>
                    Cardinality(SectionsOf(sections', xml_data[j])) = 1
          /\ Len(sections')
                = Cardinality({ j \in 1 .. Len(xml_data) :
                                   WellFormed(xml_data[j]) })]_vars

C16_Witness ==
    /\ phase = "idle"
    /\ Len(xml_data) = 3
    /\ Len(sections) = 3
    /\ xml_data[1].date = <<2024, 10, 2>>
    /\ xml_data[2].date = <<2024, 9, 30>>
    /\ xml_data[3].date = <<2024, 10, 1>>
    /\ sections[1].date = <<2024, 9, 30>>
    /\ sections[3].date = <<2024, 10, 2>>

\* C20: a date whose content does not parse gets no section and adds nothing
\* to the count, the dates after it are still processed, and a call that
\* returns leaves total_fixtures equal to the number of child elements of the
\* dates that parsed, whatever the counter held before.
C20_ParseFailureSkipsDate ==
    [][phase' = "idle" =>
          /\ \A j \in 1 .. Len(xml_data) :
                IF WellFormed(xml_data[j])
                THEN \E k \in SectionsOf(sections', xml_data[j]) :
                        /\ sections'[k].children = ChildCount(xml_data[j])
                        /\ sections'[k].of = GetCacheKey(xml_data[j].date)
                ELSE SectionsOf(sections', xml_data[j]) = {}
          /\ stats'.total_fixtures = TotalChildren(xml_data)
          /\ \A k \in {"cache_hits", "api_calls", "failed_requests"} :
                stats'[k] = stats[k]]_vars

C20_Witness ==
    /\ phase = "idle"
    /\ Len(xml_data) = 3
    /\ \E j \in 1 .. 3 : xml_data[j] = [date |-> <<2024, 9, 30>>,
                                        content |-> Garbled]
    /\ \E j \in 1 .. 3 : xml_data[j] = [date |-> <<2024, 10, 1>>,
                                        content |-> EmptyText]
    /\ Len(sections) = 1
    /\ sections[1].date = <<2024, 10, 2>>
    /\ sections[1].children = MaxChildren
    /\ stats0.total_fixtures = MaxCount
    /\ stats.total_fixtures = MaxChildren
\* C22: when a call on a range of N dates is complete, each date of the
\* range is a key of the mapping or the call counted one failure for it,
\* not both and not neither, so that entries plus failures added is N.
C22_EntryOrFailure ==
    CallComplete =>
        /\ \A i \in Tasks :
              (dates[i] \in DOMAIN results) # (ret[i].kind = "failure")
        /\ Cardinality(DOMAIN results)
              + (stats.failed_requests - stats0.failed_requests) = Len(dates)
\* clear_cache has run after the call began.
ClearedSince == phase = "idle" /\ cache = EmptyMap /\ results # EmptyMap

\* C23: with a cache directory that takes every write, and as long as
\* clear_cache has not run, each date of the mapping of a complete call has
\* a cache entry that holds the content the mapping has for that date.
C23_MappingIsCached ==
    (CallComplete /\ disk = "ok" /\ ~ClearedSince) =>
        \A dt \in DOMAIN results :
            /\ GetCacheKey(dt) \in DOMAIN cache
            /\ cache[GetCacheKey(dt)] = results[dt]

C23_Witness ==
    /\ CallComplete
    /\ disk = "ok"
    /\ phase = "idle"
    /\ Cardinality(DOMAIN results) = 2
    /\ \E i \in Tasks :
          /\ KeyOf(i) \in DOMAIN cache0
          /\ cache0[KeyOf(i)] = Corrupt
          /\ ret[i].kind = "network"
          /\ cache[KeyOf(i)] = results[dates[i]]
\* The entry of cache key k is as it was when the call began.
EntryUnchanged(k) ==
    IF k \in DOMAIN cache0
    THEN k \in DOMAIN cache /\ cache[k] = cache0[k]
    ELSE k \notin DOMAIN cache

\* The fetch of task i has been answered by the endpoint.
Answered(i) == pc[i] = "api_wr" \/ ret[i].kind = "network"

\* C24: a fetch touches the cache entry of its own date only: an entry
\* differs from what the call found only if the fetch of that very date was
\* answered, a hit returns what the entry of its date held, and a fetch that
\* returned a hit or a failure left its entry as it was (absent if absent).
C24_OwnEntryOnly ==
    (calls > 0 /\ ~(phase = "idle" /\ cache = EmptyMap)) =>
        /\ \A k \in DOMAIN cache \cup DOMAIN cache0 :
              EntryUnchanged(k) \/ \E i \in Tasks : KeyOf(i) = k /\ Answered(i)
        /\ \A i \in Tasks :
              /\ ret[i].kind = "hit" =>
                    /\ KeyOf(i) \in DOMAIN cache0
                    /\ ret[i].content = cache0[KeyOf(i)]
              /\ ret[i].kind \in {"hit", "failure"} => EntryUnchanged(KeyOf(i))

C24_Witness ==
    /\ CallComplete
    /\ \E i, j \in Tasks :
          /\ ret[i].kind = "failure"
          /\ KeyOf(i) \notin DOMAIN cache
          /\ ret[j].kind = "network"
          /\ KeyOf(j) \notin DOMAIN cache0
          /\ KeyOf(j) \in DOMAIN cache
          /\ cache[KeyOf(j)] = ret[j].content

C24_OtherDateWitness ==
    /\ CallComplete
    /\ \E i \in Tasks : ret[i].kind = "network" /\ KeyOf(i) \in DOMAIN cache
    /\ \E dt \in InputDays :
          /\ \A i \in Tasks : dates[i] # dt
          /\ GetCacheKey(dt) \in DOMAIN cache
          /\ cache[GetCacheKey(dt)] = Doc(GetCacheKey(dt))
Terminal(i) ==
    pc[i] = "collected" /\ ret[i].kind \in {"hit", "network", "failure"}

\* C25: no fetch makes more than retry_attempts requests, and a call that
\* has begun returns with every fetch of its range at a terminal outcome,
\* in both modes and whatever the endpoint answers.
C25_CallReturns ==
    /\ [](\A i \in Tasks :
             /\ attempt[i] <= retry_attempts
             /\ CountEv(log[i], "http_ok") + CountEv(log[i], "http_fail")
                   <= retry_attempts)
    /\ (phase = "running") ~> (phase = "idle" /\ \A i \in Tasks : Terminal(i))

C25_Witness ==
    /\ phase = "idle"
    /\ use_parallel
    /\ Len(dates) = 2
    /\ \E i, j \in Tasks :
          /\ Terminal(i) /\ ret[i].kind = "failure"
          /\ Terminal(j) /\ ret[j].kind = "network"

C25_SequentialWitness ==
    /\ phase = "idle"
    /\ ~use_parallel
    /\ Len(dates) = 2
    /\ \E i, j \in Tasks :
          /\ Terminal(i) /\ ret[i].kind = "failure"
          /\ Terminal(j) /\ ret[j].kind = "hit"
\* What the call must return and leave behind, told from its inputs alone
\* (the dates, the cache it found, the cache directory and the endpoint):
\* a date with a readable non-empty entry is served from it, any other date
\* gets what the endpoint answers within the attempts of one fetch.
ServedFromCache(k) == k \in DOMAIN cache0 /\ cache0[k].ver > 0
EndpointAnswers(k) == endpoint[k].after < retry_attempts
Fetched(k) ==
    /\ \E i \in Tasks : KeyOf(i) = k
    /\ ~ServedFromCache(k)
    /\ EndpointAnswers(k)

ContentFor(k) ==
    IF ServedFromCache(k) THEN cache0[k]
    ELSE IF EndpointAnswers(k) THEN endpoint[k].body ELSE None

MappingForInputs ==
    [dt \in { dates[i] : i \in { j \in Tasks :
                                   ContentFor(KeyOf(j)).ver > 0 } } |->
        ContentFor(GetCacheKey(dt))]

CacheForInputs ==
    [k \in { x \in DOMAIN cache0 \cup { KeyOf(i) : i \in Tasks } :
               x \in DOMAIN cache0 \/ (Fetched(x) /\ disk # "readonly") } |->
        IF Fetched(k) /\ disk = "ok" THEN endpoint[k].body
        ELSE IF Fetched(k) /\ disk = "full" THEN Corrupt
        ELSE cache0[k]]

\* C21: a complete call returns the mapping and leaves the cache that its
\* inputs determine, the same in sequential mode and in parallel mode under
\* every interleaving of the pool threads.
C21_ModesAgree ==
    CallComplete =>
        /\ results = MappingForInputs
        /\ cache = CacheForInputs

C21_Witness ==
    /\ CallComplete
    /\ use_parallel
    /\ disk = "ok"
    /\ Len(dates) = 2
    /\ Cardinality(DOMAIN results) = 1
    /\ \E i \in Tasks : ret[i].kind = "failure"
    /\ \E i \in Tasks :
          /\ ret[i].kind = "network"
          /\ ret[i].content = Doc(KeyOf(i))
          /\ endpoint[KeyOf(i)].after > 0
    /\ cache # cache0

C21_SequentialWitness ==
    /\ CallComplete
    /\ ~use_parallel
    /\ disk = "ok"
    /\ Len(dates) = 2
    /\ Cardinality(DOMAIN results) = 1
    /\ \E i \in Tasks : ret[i].kind = "failure"
    /\ \E i \in Tasks :
          /\ ret[i].kind = "network"
          /\ ret[i].content = Doc(KeyOf(i))
          /\ endpoint[KeyOf(i)].after > 0
    /\ cache # cache0

C21_OutOfOrderWitness ==
    /\ use_parallel
    /\ Len(dates) = 2
    /\ pc[2] = "collected"
    /\ pc[1] = "attempt"
====
